---- MODULE Spec2Model ----
(***************************************************************************)
(* Model of the pinus-rpc client (packages/pinus-rpc/lib/rpc-client/       *)
(* client.ts): the RpcClient lifecycle (start / stop), the direct          *)
(* rpcInvoke, and the proxy dispatch path (proxyCB, getRouteTarget,        *)
(* rpcToSpecifiedServer).  The Transport (mail station), the router and    *)
(* the RouteContext are the client's environment: the Transport answers    *)
(* every start and every dispatch exactly once, with success or failure,   *)
(* at any later moment.  Proxy calls and direct invocations share no       *)
(* state with one another (each reads client.state and writes only its own *)
(* promise), so the model follows one of them at a time, the latest one    *)
(* made, against every interleaving of the lifecycle operations.           *)
(***************************************************************************)
EXTENDS Integers, Sequences, FiniteSets, TLC

\* ------------------------------------------------------------------ bounds
MaxStarts == 2       \* start() calls handed to the Transport
MaxStops == 2        \* stop() calls handed to the Transport
MaxServers == 2      \* servers the RouteContext lists for serverType "chat"
MaxArgs == 2         \* longest argument list handed to a proxy method
MaxAdds == 2         \* proxy descriptors handed to addProxy, in all

\* ------------------------------------------------------- program constants
STATE_INITED == 1
STATE_STARTED == 2
STATE_CLOSED == 3

VARIABLES
    state,          \* RpcClient.state
    pendingStart,   \* Transport.start calls whose callback has not run yet
    stationStarts,  \* number of Transport.start invocations
    stationStops,   \* number of Transport.stop invocations
    listeners,      \* failureProcess listeners registered on the 'error' event
    router,         \* how the client resolves strategy-routed calls (opts)
    call,           \* the latest proxy method call or direct rpcInvoke
    stoppedInRoute, \* stop() closed the client while the call awaited its router
    stationServers, \* the server ids the Transport has been told of
    proxies,        \* RpcClient.proxies: namespace -> serverType -> service
    adds,           \* descriptors handed to addProxy so far
    latest,         \* per (namespace, serverType, service): the last addProxy
                    \* that registered it (0: none did)
    lastOp          \* the operation that made the last step, and what the
                    \* code it called last (the caller's callback,
                    \* Transport.stop) received and could observe

vars == <<state, pendingStart, stationStarts, stationStops, listeners, router,
          call, stoppedInRoute, stationServers, proxies, adds, latest, lastOp>>

\* The registry and its bookkeeping, the lifecycle, the servers.
registryVars == <<proxies, adds, latest>>
lifecycleVars == <<state, pendingStart, stationStarts, stationStops, listeners>>

\* ------------------------------------------------------------- JS values
\* A value is its typeof and, for a string, its text; a server id "chat-1"
\* is kept as the pair (serverType, number).
Str(s, n) == [typeof |-> "string", s |-> s, n |-> n]
Star == Str("*", 0)
SrvId(st, n) == Str(st, n)
NotAString == [typeof |-> "number", s |-> "", n |-> 7]
Payload == Str("payload", 0)

ServerTypes == {"chat", "gate", "area", "none"}

\* RouteContext.getServersByType: "chat" has MaxServers servers, "gate" one,
\* "area" an empty list, and "none" no list at all (undefined).
getServersByType(serverType) ==
    CASE serverType = "chat" ->
           [present |-> TRUE, list |-> [i \in 1..MaxServers |-> [id |-> SrvId("chat", i)]]]
      [] serverType = "gate" ->
           [present |-> TRUE, list |-> <<[id |-> SrvId("gate", 1)]>>]
      [] serverType = "area" -> [present |-> TRUE, list |-> <<>>]
      [] OTHER -> [present |-> FALSE, list |-> <<>>]

\* What the code called by a step received (err) and the client it could
\* observe at that moment; NoCb when the step called nothing.
NoCb == [ran |-> FALSE, err |-> "none", stateSeen |-> 0, listenersSeen |-> 0]
Cb(err, st, ls) == [ran |-> TRUE, err |-> err, stateSeen |-> st, listenersSeen |-> ls]

\* lastOp: the operation, the state it started from, and what it called.
NoTarget == Str("", 0)
Op(name, from, cb) ==
    [op |-> name, from |-> from, id |-> 0, cb |-> cb, target |-> NoTarget, pairs |-> {}]

RouterKinds == {"routerType", "function", "object", "invalid"}

\* ------------------------------------------------------ promises, messages
NoMsg == [namespace |-> "", serverType |-> "", service |-> "", method |-> "", args |-> <<>>]

\* One call: which entry point (api: "proxy" for a proxy method, "direct"
\* for rpcInvoke), its inputs, what proxyCB returned to the caller (ret),
\* the error of a promise made by Promise.reject and dropped, the promise
\* returned (promise, value; settles counts the calls of its resolve and
\* reject functions), the router's progress, the dispatches made (sent),
\* the bookkeeping of async.each for a broadcast, and the calls of the
\* embedder's cb for a direct rpcInvoke.
NewCall(api, toSpecified, serverType, args) ==
    [api |-> api, toSpecified |-> toSpecified, serverType |-> serverType, args |-> args,
     ret |-> "undefined", dropped |-> "none",
     promise |-> "none", value |-> "none", settles |-> 0,
     msg |-> NoMsg, routing |-> "none", sent |-> <<>>,
     total |-> 0, completed |-> 0, aggCalled |-> FALSE,
     cbCount |-> 0, cbErr |-> "none"]

NoCall == NewCall("none", FALSE, "", <<>>)

\* The resolve and reject functions of the promise of line 387: only the
\* first call settles the promise.
resolve(c, v) ==
    IF c.promise = "pending"
    THEN [c EXCEPT !.promise = "resolved", !.value = v, !.settles = @ + 1]
    ELSE [c EXCEPT !.settles = @ + 1]

reject(c, e) ==
    IF c.promise = "pending"
    THEN [c EXCEPT !.promise = "rejected", !.value = e, !.settles = @ + 1]
    ELSE [c EXCEPT !.settles = @ + 1]

\* A final callback that runs every time it is called.
eachCallbackMutant(c, err) ==
    resolve([c EXCEPT !.aggCalled = TRUE], IF err = "none" THEN "null" ELSE err)

\* async.each's final callback, which is the promise's resolve (line 511)
\* wrapped to run once: it is handed the error, or null.
eachCallback(c, err) ==
    IF c.aggCalled THEN c
    ELSE resolve([c EXCEPT !.aggCalled = TRUE], IF err = "none" THEN "null" ELSE err)

\* A next that is called without the error: next() for next(err).
nextMutant(c, err) ==
    LET d == [c EXCEPT !.completed = @ + 1]
    IN IF d.completed = d.total THEN eachCallback(d, "none") ELSE d

\* next(err) of lines 507-510: the first error ends the aggregate, the last
\* success ends it without error.
next(c, err) ==
    IF err # "none" THEN eachCallback(c, err)
    ELSE LET d == [c EXCEPT !.completed = @ + 1]
         IN IF d.completed = d.total THEN eachCallback(d, "none") ELSE d

\* The callback handed to rpcInvoke, by the place that made the call:
\*   "resolve"  line 514, cb is the promise's resolve: resolve(err)
\*   "next"     lines 507-510, one invocation of a broadcast
\*   "strategy" lines 402-412, reject(err) or resolve(resp)
\*   "direct"   the embedder's own callback
invokeCb(c, kind, err, resp) ==
    CASE kind = "resolve" -> resolve(c, IF err = "none" THEN "null" ELSE err)
      [] kind = "next" -> next(c, err)
      [] kind = "strategy" -> IF err # "none" THEN reject(c, err) ELSE resolve(c, resp)
      [] OTHER -> [c EXCEPT !.cbCount = @ + 1, !.cbErr = err]

\* An rpcInvoke that turns away only a CLOSED client.
rpcInvokeNotRunningMutant(st) == st = STATE_CLOSED

\* rpcInvoke: the guard of line 246.
rpcInvokeNotRunning(st) == st # STATE_STARTED

\* rpcInvoke(serverId, msg, cb) made on behalf of c with the client in state
\* st: cb(error) at once when the client is not running, else one
\* Transport.dispatch, whose answer comes later (Complete).
rpcInvoke(c, st, serverId, msg, kind) ==
    IF rpcInvokeNotRunning(st)
    THEN invokeCb(c, kind, "NotRunning", "none")
    ELSE [c EXCEPT !.sent = Append(@, [serverId |-> serverId, msg |-> msg,
                                       stateAt |-> st, cb |-> kind, done |-> FALSE])]

\* async.each(servers, iterator, cb): every element is handed to the
\* iterator in list order before any answer can arrive; an empty list calls
\* cb(null) at once.
RECURSIVE eachFrom(_, _, _, _, _)
eachFrom(c, st, servers, i, msg) ==
    IF i > Len(servers) THEN c
    ELSE eachFrom(rpcInvoke(c, st, servers[i].id, msg, "next"), st, servers, i + 1, msg)

\* A broadcast whose loop starts one element late.
eachMutant(c, st, servers, msg) ==
    LET c0 == [c EXCEPT !.total = Len(servers)]
        c1 == IF Len(servers) = 0 THEN eachCallback(c0, "none") ELSE c0
    IN eachFrom(c1, st, servers, 2, msg)

each(c, st, servers, msg) ==
    LET c0 == [c EXCEPT !.total = Len(servers)]
        c1 == IF Len(servers) = 0 THEN eachCallback(c0, "none") ELSE c0
    IN eachFrom(c1, st, servers, 1, msg)

\* rpcToSpecifiedServer (lines 488-516); cb is the promise's resolve.
rpcToSpecifiedServer(c, st, msg, serverType, serverId) ==
    IF serverId.typeof # "string" THEN c
    ELSE IF serverId = Star
         THEN LET servers == getServersByType(serverType)
              IN IF ~servers.present THEN c ELSE each(c, st, servers.list, msg)
         ELSE rpcInvoke(c, st, serverId, msg, "resolve")

\* getRouteTarget (lines 428-476): a built-in strategy or the custom router
\* is called and answers later (RouteDeliver); a router that is neither a
\* function nor an object with a route method is logged and nothing else.
getRouteTarget(c, rk) ==
    IF rk \in {"routerType", "function", "object"}
    THEN [c EXCEPT !.routing = "pending"]
    ELSE [c EXCEPT !.routing = "invalid"]

\* proxyCB: the guards of lines 364 and 369.
proxyNotRunning(st) == st # STATE_STARTED
tooFewArgs(args) == Len(args) < 2

\* proxyCB (lines 362-416) up to its return.
proxyCB(st, rk, args, serverType, toSpecified) ==
    LET c == NewCall("proxy", toSpecified, serverType, args)
    IN IF proxyNotRunning(st) THEN [c EXCEPT !.dropped = "NotRunning"]
       ELSE IF tooFewArgs(args) THEN [c EXCEPT !.dropped = "InvalidArgs"]
       ELSE LET routeParam == Head(args)
                msg == [namespace |-> "user", serverType |-> serverType,
                        service |-> "svc", method |-> "m", args |-> Tail(args)]
                p == [c EXCEPT !.ret = "promise", !.promise = "pending", !.msg = msg]
            IN IF toSpecified
               THEN rpcToSpecifiedServer(p, st, msg, serverType, routeParam)
               ELSE getRouteTarget(p, rk)

\* ------------------------------------------------- servers, proxy registry
\* The servers of the cluster: the Transport is told of all of them when
\* the client is made (opts.servers).
AllServers == {SrvId("chat", i) : i \in 1..MaxServers} \cup {SrvId("gate", 1)}

Namespaces == {"user", "sys"}
ProxyTypes == {"chat", "gate"}
Services == {"svcA", "svcB"}
RegistryKeys == Namespaces \X ProxyTypes \X Services

\* proxies = {}: no namespace key. A namespace, and a serverType under it,
\* is a key that is there or not; a service maps to the addProxy call that
\* made its proxy object (0: no such property).
NoServices == [n \in Services |-> 0]
NoProxies ==
    [ns \in Namespaces |->
       [present |-> FALSE,
        types |-> [st \in ProxyTypes |-> [present |-> FALSE, svc |-> NoServices]]]]

\* A descriptor handed to addProxy, with what the loader returns for its
\* path: no descriptor at all (undefined), or {namespace, serverType, path}
\* whose path loads to nothing (undefined) or to a map of services, which
\* may be empty.
NoModules == [present |-> FALSE, names |-> {}]
ModuleSets == {NoModules} \cup {[present |-> TRUE, names |-> S] : S \in SUBSET Services}
NoDescriptor == [present |-> FALSE, namespace |-> "", serverType |-> "", modules |-> NoModules]
Descriptors ==
    {NoDescriptor} \cup
    {[present |-> TRUE, namespace |-> ns, serverType |-> st, modules |-> m] :
        ns \in Namespaces, st \in ProxyTypes, m \in ModuleSets}

\* generateProxy (lines 326-348): undefined without a descriptor or without
\* modules, else one proxy object per loaded service; gen names the
\* objects this call creates.
generateProxy(record, gen) ==
    IF ~record.present THEN [present |-> FALSE, svc |-> NoServices]
    ELSE IF record.modules.present
         THEN [present |-> TRUE,
               svc |-> [n \in Services |-> IF n \in record.modules.names THEN gen ELSE 0]]
         ELSE [present |-> FALSE, svc |-> NoServices]

\* An insertProxy that always stores the new proxy map under the key.
insertProxyMutant(ps, namespace, serverType, proxy) ==
    [ps EXCEPT ![namespace].present = TRUE,
               ![namespace].types[serverType] = [present |-> TRUE, svc |-> proxy.svc]]

\* insertProxy (lines 528-541): the namespace key is made if missing; an
\* existing serverType entry receives the new proxy's properties, a missing
\* one becomes the new proxy map.
insertProxy(ps, namespace, serverType, proxy) ==
    IF ps[namespace].types[serverType].present
    THEN [ps EXCEPT ![namespace].present = TRUE,
                    ![namespace].types[serverType].svc =
                        [n \in Services |-> IF proxy.svc[n] # 0 THEN proxy.svc[n] ELSE @[n]]]
    ELSE [ps EXCEPT ![namespace].present = TRUE,
                    ![namespace].types[serverType] = [present |-> TRUE, svc |-> proxy.svc]]

\* addProxy (lines 146-158).
addProxy(ps, record, gen) ==
    IF ~record.present THEN ps
    ELSE LET proxy == generateProxy(record, gen)
         IN IF ~proxy.present THEN ps
            ELSE insertProxy(ps, record.namespace, record.serverType, proxy)

\* addProxies (lines 165-175): addProxy on each element, in order; the
\* i-th element is the (gen + i)-th descriptor handed to addProxy.
RECURSIVE addProxiesFrom(_, _, _, _)
addProxiesFrom(ps, records, i, gen) ==
    IF i > Len(records) THEN ps
    ELSE addProxiesFrom(addProxy(ps, records[i], gen + i), records, i + 1, gen)

addProxies(ps, records, gen) ==
    IF Len(records) = 0 THEN ps ELSE addProxiesFrom(ps, records, 1, gen)

\* The services a descriptor asks to register, and the bookkeeping of the
\* last registration of each.
Registers(record, k) ==
    /\ record.present
    /\ record.modules.present
    /\ k[1] = record.namespace
    /\ k[2] = record.serverType
    /\ k[3] \in record.modules.names

RECURSIVE latestAfter(_, _, _, _)
latestAfter(lt, records, i, gen) ==
    IF i > Len(records) THEN lt
    ELSE latestAfter([k \in RegistryKeys |->
                        IF Registers(records[i], k) THEN gen + i ELSE lt[k]],
                     records, i + 1, gen)

PairsOf(records) ==
    {<<records[i].namespace, records[i].serverType>> :
        i \in {j \in 1..Len(records) : records[j].present}}

Init ==
    /\ state = STATE_INITED
    /\ pendingStart = 0
    /\ stationStarts = 0
    /\ stationStops = 0
    /\ listeners = 0
    /\ router \in RouterKinds
    /\ call = NoCall
    /\ stoppedInRoute = FALSE
    /\ stationServers = AllServers
    /\ proxies = NoProxies
    /\ adds = 0
    /\ latest = [k \in RegistryKeys |-> 0]
    /\ lastOp = Op("new", 0, NoCb)

\* ------------------------------------------------------------- lifecycle
\* A start() that turns away only a CLOSED client.
startRejectedMutant(st) == st > STATE_STARTED

\* start(): the guard of lines 102-106.
startRejected(st) == st > STATE_INITED

\* start(cb): rejected with an error once the client has started, else
\* handed to the Transport, whose callback runs later (StartCallback).
Start ==
    /\ IF startRejected(state)
       THEN /\ UNCHANGED <<state, pendingStart, stationStarts, stationStops, listeners>>
            /\ lastOp' = Op("startRejected", state, Cb("AlreadyStarted", state, listeners))
       ELSE /\ stationStarts < MaxStarts
            /\ stationStarts' = stationStarts + 1
            /\ pendingStart' = pendingStart + 1
            /\ UNCHANGED <<state, stationStops, listeners>>
            /\ lastOp' = Op("start", state, NoCb)
    /\ UNCHANGED <<router, call, stoppedInRoute, stationServers, registryVars>>

\* A start callback that calls cb() before it sets the state.
stateAtStartCbMutant(st) == st

\* The state the caller's callback observes when the Transport reports
\* success: line 117 sets the state before line 118 calls cb().
stateAtStartCb(st) == STATE_STARTED

\* The callback handed to Transport.start (lines 109-119).
StartCallback(ok) ==
    /\ pendingStart > 0
    /\ pendingStart' = pendingStart - 1
    /\ IF ok
       THEN /\ listeners' = listeners + 1
            /\ state' = STATE_STARTED
            /\ lastOp' = Op("startOk", state,
                            Cb("none", stateAtStartCb(state), listeners + 1))
       ELSE /\ UNCHANGED <<state, listeners>>
            /\ lastOp' = Op("startFailed", state,
                            Cb("TransportStartError", state, listeners))
    /\ UNCHANGED <<stationStarts, stationStops, router, call, stoppedInRoute,
                   stationServers, registryVars>>

\* stop(): the guard of lines 130-134.
stopIgnored(st) == st # STATE_STARTED

\* The state Transport.stop finds the client in: line 135 sets the state
\* before line 136 calls this._station.stop(force).
stateAtStationStop(st) == STATE_CLOSED

\* stop(force): a warning when the client is not running, else the state
\* becomes CLOSED and then Transport.stop is called.
Stop ==
    /\ IF stopIgnored(state)
       THEN /\ UNCHANGED <<state, stationStops, stoppedInRoute>>
            /\ lastOp' = Op("stopIgnored", state, NoCb)
       ELSE /\ stationStops < MaxStops
            /\ state' = STATE_CLOSED
            /\ stationStops' = stationStops + 1
            /\ stoppedInRoute' = (stoppedInRoute \/ call.routing = "pending")
            /\ lastOp' = Op("stop", state, Cb("none", stateAtStationStop(state), listeners))
    /\ UNCHANGED <<pendingStart, stationStarts, listeners, router, call,
                   stationServers, registryVars>>

\* ------------------------------------------------------------ call inputs
RouteKeys == {Star, SrvId("chat", 1), NotAString}

RECURSIVE Payloads(_)
Payloads(n) == IF n = 0 THEN <<>> ELSE <<Payload>> \o Payloads(n - 1)

ArgLists ==
    {<<>>, <<Payload>>}
      \cup {<<k>> \o Payloads(n - 1) : k \in RouteKeys, n \in 2..MaxArgs}

RouterTargets == {SrvId("chat", 1), SrvId("gate", 1)}

\* ------------------------------------------------------------------ calls
\* A proxy method is called: proxyCB runs to its return.
ProxyCall(toSpecified, serverType, args) ==
    /\ call' = proxyCB(state, router, args, serverType, toSpecified)
    /\ lastOp' = Op("proxyCall", state, NoCb)
    /\ stoppedInRoute' = FALSE
    /\ UNCHANGED <<lifecycleVars, router, stationServers, registryVars>>

\* A router callback that lacks the return of line 399: after an error it
\* goes on to rpcInvoke.
RouteDeliverMutant(failed, serverId) ==
    /\ call.routing = "pending"
    /\ LET c == [call EXCEPT !.routing = "delivered"]
       IN call' = rpcInvoke(IF failed THEN resolve(c, "RouterError") ELSE c,
                            state, serverId, c.msg, "strategy")
    /\ lastOp' = [Op(IF failed THEN "routeFailed" ELSE "routeDelivered", state, NoCb)
                     EXCEPT !.target = IF failed THEN NoTarget ELSE serverId]
    /\ UNCHANGED <<lifecycleVars, router, stoppedInRoute, stationServers, registryVars>>

\* The router answers the call (lines 395-413): an error resolves the
\* promise with it, a server id goes to rpcInvoke.
RouteDeliver(failed, serverId) ==
    /\ call.routing = "pending"
    /\ LET c == [call EXCEPT !.routing = "delivered"]
       IN call' = IF failed THEN resolve(c, "RouterError")
                  ELSE rpcInvoke(c, state, serverId, c.msg, "strategy")
    /\ lastOp' = [Op(IF failed THEN "routeFailed" ELSE "routeDelivered", state, NoCb)
                     EXCEPT !.target = IF failed THEN NoTarget ELSE serverId]
    /\ UNCHANGED <<lifecycleVars, router, stoppedInRoute, stationServers, registryVars>>

\* rpcInvoke is called directly by the embedder.
RpcInvoke(serverId, serverType) ==
    /\ LET msg == [namespace |-> "user", serverType |-> serverType,
                   service |-> "svc", method |-> "m", args |-> <<Payload>>]
       IN call' = rpcInvoke([NewCall("direct", FALSE, serverType, <<>>) EXCEPT !.msg = msg],
                            state, serverId, msg, "direct")
    /\ lastOp' = Op("rpcInvoke", state, NoCb)
    /\ stoppedInRoute' = FALSE
    /\ UNCHANGED <<lifecycleVars, router, stationServers, registryVars>>

\* The Transport answers dispatch j of the call, once.
Complete(j, ok) ==
    /\ j \in 1..Len(call.sent)
    /\ ~call.sent[j].done
    /\ call' = invokeCb([call EXCEPT !.sent[j].done = TRUE], call.sent[j].cb,
                        IF ok THEN "none" ELSE "RemoteError", "resp")
    /\ lastOp' = Op(IF ok THEN "completeOk" ELSE "completeFailed", state, NoCb)
    /\ UNCHANGED <<lifecycleVars, router, stoppedInRoute, stationServers, registryVars>>

\* addProxy(record) is called by the embedder.
AddProxy(record) ==
    /\ adds < MaxAdds
    /\ adds' = adds + 1
    /\ proxies' = addProxy(proxies, record, adds + 1)
    /\ latest' = latestAfter(latest, <<record>>, 1, adds)
    /\ lastOp' = [Op("addProxy", state, NoCb) EXCEPT !.pairs = PairsOf(<<record>>)]
    /\ UNCHANGED <<lifecycleVars, router, call, stoppedInRoute, stationServers>>

\* addProxies(records) is called by the embedder.
AddProxies(records) ==
    /\ adds + Len(records) <= MaxAdds
    /\ adds' = adds + Len(records)
    /\ proxies' = addProxies(proxies, records, adds)
    /\ latest' = latestAfter(latest, records, 1, adds)
    /\ lastOp' = [Op("addProxies", state, NoCb) EXCEPT !.pairs = PairsOf(records)]
    /\ UNCHANGED <<lifecycleVars, router, call, stoppedInRoute, stationServers>>

\* addServer(server) and removeServer(id) are forwarded to the Transport
\* (lines 182-185 and 202-205).
AddServer(id) ==
    /\ stationServers' = stationServers \cup {id}
    /\ lastOp' = [Op("addServer", state, NoCb) EXCEPT !.target = id]
    /\ UNCHANGED <<lifecycleVars, router, call, stoppedInRoute, registryVars>>

RemoveServer(id) ==
    /\ stationServers' = stationServers \ {id}
    /\ lastOp' = [Op("removeServer", state, NoCb) EXCEPT !.target = id]
    /\ UNCHANGED <<lifecycleVars, router, call, stoppedInRoute, registryVars>>

\* An error event whose handler fails the call in flight.
TransportErrorMutant ==
    /\ lastOp' = [Op("transportError", state, NoCb) EXCEPT !.id = listeners]
    /\ call' = IF call.promise = "pending" THEN reject(call, "TransportError") ELSE call
    /\ UNCHANGED <<lifecycleVars, router, stoppedInRoute, stationServers, registryVars>>

\* The Transport emits 'error': every registered listener runs once.
TransportError ==
    /\ lastOp' = [Op("transportError", state, NoCb) EXCEPT !.id = listeners]
    /\ UNCHANGED <<lifecycleVars, router, call, stoppedInRoute, stationServers,
                   registryVars>>

Next ==
    \/ Start
    \/ \E ok \in BOOLEAN : StartCallback(ok)
    \/ Stop
    \/ \E toSpecified \in BOOLEAN, serverType \in ServerTypes, args \in ArgLists :
          ProxyCall(toSpecified, serverType, args)
    \/ \E failed \in BOOLEAN, serverId \in RouterTargets : RouteDeliver(failed, serverId)
    \/ \E serverId \in RouterTargets : RpcInvoke(serverId, serverId.s)
    \/ \E j \in 1..(MaxServers + 1), ok \in BOOLEAN : Complete(j, ok)
    \/ TransportError

Spec == Init /\ [][Next]_vars

\* The proxy registry on its own: no other operation reads or writes it.
NextProxies ==
    \/ \E record \in Descriptors : AddProxy(record)
    \/ \E n \in 0..(MaxAdds - adds) : \E records \in [1..n -> Descriptors] :
          AddProxies(records)

SpecProxies == Init /\ [][NextProxies]_vars

\* Server membership against proxy calls on a client that is started.
NextServers ==
    \/ Start
    \/ \E ok \in BOOLEAN : StartCallback(ok)
    \/ \E id \in AllServers : RemoveServer(id)
    \/ \E id \in AllServers : AddServer(id)
    \/ \E toSpecified \in BOOLEAN, serverType \in ServerTypes, args \in ArgLists :
          ProxyCall(toSpecified, serverType, args)

SpecServers == Init /\ [][NextServers]_vars

\* ===================================================================== claims
\* Helpers of the claims' statements.
IsStartedProxyCall == call.api = "proxy" /\ call.ret = "promise"
Outstanding ==
    \/ call.routing = "pending"
    \/ \E j \in 1..Len(call.sent) : ~call.sent[j].done
ExpectedMsg ==
    [namespace |-> "user", serverType |-> call.serverType, service |-> "svc",
     method |-> "m", args |-> Tail(call.args)]

\* C1: the client state is monotonic: no step takes the state from CLOSED
\* back to STARTED or INITED, or from STARTED back to INITED.
C1_StateMonotonic == [][state' >= state]_vars

\* C2: a direct rpcInvoke on a client that is not STARTED calls cb exactly
\* once, with the not-running error, and dispatches nothing; an rpcInvoke
\* made for a routed proxy call on such a client fails the call the same
\* way; and every Transport.dispatch was issued with the state STARTED.
C2_InvokeOnlyWhenStarted ==
    /\ \A j \in 1..Len(call.sent) : call.sent[j].stateAt = STATE_STARTED
    /\ (call.api = "direct" /\ call.sent = <<>>)
          => (call.cbCount = 1 /\ call.cbErr = "NotRunning")
    /\ (lastOp.op = "rpcInvoke" /\ lastOp.from # STATE_STARTED)
          => (call.api = "direct" /\ call.sent = <<>> /\ call.cbCount = 1)
    /\ (lastOp.op = "routeDelivered" /\ lastOp.from # STATE_STARTED)
          => (call.sent = <<>> /\ call.promise = "rejected" /\ call.value = "NotRunning")

C2_Witness ==
    /\ lastOp.op = "rpcInvoke"
    /\ lastOp.from = STATE_CLOSED
    /\ call.cbCount = 1
    /\ call.cbErr = "NotRunning"

\* C3: a proxy method called on a client that is not STARTED returns a
\* promise that is rejected with the not-running error, and dispatches
\* nothing.
C3_NotStartedRejectsReturnedPromise ==
    (lastOp.op = "proxyCall" /\ lastOp.from # STATE_STARTED)
       => /\ call.ret = "promise"
          /\ call.promise = "rejected"
          /\ call.value = "NotRunning"
          /\ call.sent = <<>>

\* C4: a start() made on a STARTED or CLOSED client calls its callback with
\* the already-started error, does not call Transport.start, and leaves
\* the state (and the listeners) as they were.
C4_SecondStartRejected ==
    [][(lastOp'.op \in {"start", "startRejected"} /\ state > STATE_INITED)
          => /\ lastOp'.op = "startRejected"
             /\ lastOp'.cb.ran
             /\ lastOp'.cb.err = "AlreadyStarted"
             /\ stationStarts' = stationStarts
             /\ pendingStart' = pendingStart
             /\ state' = state
             /\ listeners' = listeners]_vars

C4_Witness ==
    /\ lastOp.op = "startRejected"
    /\ lastOp.from = STATE_CLOSED
    /\ lastOp.cb.err = "AlreadyStarted"
    /\ stationStarts = 1

\* C5: when the Transport reports a successful start, the error listener
\* is registered and the state is STARTED by the time the caller's callback
\* runs, and the callback receives no error; when it reports a failure the
\* callback receives that error and neither the state nor the listeners
\* change (a client that was INITED is still INITED, with no listener).
C5_StartCallback ==
    [][/\ lastOp'.op = "startOk"
           => /\ state' = STATE_STARTED
              /\ listeners' = listeners + 1
              /\ lastOp'.cb = Cb("none", STATE_STARTED, listeners + 1)
       /\ lastOp'.op = "startFailed"
           => /\ state' = state
              /\ listeners' = listeners
              /\ lastOp'.cb = Cb("TransportStartError", state, listeners)
              /\ (state = STATE_INITED => state' = STATE_INITED /\ listeners' = listeners)]_vars

C5_Witness ==
    /\ lastOp.op = "startFailed"
    /\ lastOp.cb.err = "TransportStartError"
    /\ state = STATE_INITED
    /\ listeners = 0

\* C6: stop() on a client that is not STARTED changes nothing and does not
\* call Transport.stop; on a STARTED client it sets the state to CLOSED
\* before it calls Transport.stop; and Transport.stop is called at most
\* once per client.
C6_StopOnce ==
    [][/\ lastOp'.op \in {"stop", "stopIgnored"}
           => IF state # STATE_STARTED
              THEN state' = state /\ stationStops' = stationStops
              ELSE /\ state' = STATE_CLOSED
                   /\ stationStops' = stationStops + 1
                   /\ lastOp'.cb.stateSeen = STATE_CLOSED
       /\ stationStops' <= 1]_vars

\* C7: at most one failure-handler listener is ever registered on the
\* Transport's error event, so one error event runs the handler at most
\* once.
C7_SingleErrorListener ==
    /\ listeners <= 1
    /\ lastOp.op = "transportError" => lastOp.id <= 1

\* C8: a proxy method called on a STARTED client with fewer than two
\* arguments returns a promise rejected with the invalid-invocation error,
\* and calls neither the router nor the Transport.
C8_TooFewArgsRejectsReturnedPromise ==
    (lastOp.op = "proxyCall" /\ lastOp.from = STATE_STARTED /\ Len(call.args) < 2)
       => /\ call.ret = "promise"
          /\ call.promise = "rejected"
          /\ call.value = "InvalidArgs"
          /\ call.sent = <<>>
          /\ call.routing = "none"

\* C9: a specified-target call whose routing key is not a string dispatches
\* nothing and its promise is settled as an invalid-server-id failure; it
\* is not left pending.
C9_NonStringKeyFails ==
    (IsStartedProxyCall /\ call.toSpecified /\ Head(call.args).typeof # "string")
       => /\ call.sent = <<>>
          /\ call.promise = "rejected"
          /\ call.value = "InvalidServerId"

\* C10: a wildcard call on a STARTED client whose RouteContext lists N >= 1
\* servers for the serverType makes exactly N dispatches, the i-th to the
\* i-th listed server id, all with the call's message; a call with a
\* literal server id makes exactly one dispatch, to that id.
C10_BroadcastDispatchesToAll ==
    (IsStartedProxyCall /\ call.toSpecified /\ Head(call.args).typeof = "string")
       => LET servers == getServersByType(call.serverType)
          IN /\ (Head(call.args) = Star /\ servers.present /\ Len(servers.list) >= 1)
                   => /\ Len(call.sent) = Len(servers.list)
                      /\ \A i \in 1..Len(servers.list) :
                            /\ call.sent[i].serverId = servers.list[i].id
                            /\ call.sent[i].msg = ExpectedMsg
             /\ Head(call.args) # Star
                   => /\ Len(call.sent) = 1
                      /\ call.sent[1].serverId = Head(call.args)
                      /\ call.sent[1].msg = ExpectedMsg

C10_Witness ==
    /\ IsStartedProxyCall
    /\ call.toSpecified
    /\ Head(call.args) = Star
    /\ Len(call.sent) = MaxServers
    /\ call.sent[MaxServers].serverId = SrvId("chat", MaxServers)

\* A wildcard call that reached async.each with at least one server.
IsBroadcast(c) ==
    /\ c.api = "proxy"
    /\ c.ret = "promise"
    /\ c.toSpecified
    /\ Head(c.args) = Star
    /\ c.total >= 1

\* C11: under every order of the N answers of a broadcast, the aggregate
\* completes with success (null) only once all N invocations have answered
\* without error, and it completes carrying the first error in the very
\* step in which an invocation first reports one; answers that come later
\* change nothing.
C11_BroadcastAggregate ==
    [][IsBroadcast(call') =>
         /\ (call'.promise = "resolved" /\ call'.value = "null")
               => /\ call'.completed = call'.total
                  /\ Len(call'.sent) = call'.total
                  /\ \A j \in 1..Len(call'.sent) : call'.sent[j].done
         /\ call'.promise # "rejected"
         /\ (lastOp'.op = "completeFailed" /\ IsBroadcast(call))
               => IF call.promise = "pending"
                  THEN call'.promise = "resolved" /\ call'.value = "RemoteError"
                  ELSE call'.promise = call.promise /\ call'.value = call.value
         /\ (lastOp'.op = "completeOk" /\ IsBroadcast(call))
               => IF call.promise = "pending" /\ call.completed + 1 = call.total
                  THEN call'.promise = "resolved" /\ call'.value = "null"
                  ELSE call'.promise = call.promise /\ call'.value = call.value]_vars

C11_Witness ==
    /\ IsBroadcast(call)
    /\ call.total = MaxServers
    /\ lastOp.op = "completeOk"
    /\ \A j \in 1..Len(call.sent) : call.sent[j].done
    /\ call.promise = "resolved"
    /\ call.value = "RemoteError"

\* C12: a wildcard call on a STARTED client for whose serverType the
\* RouteContext has an empty list, or no list, dispatches nothing and its
\* promise is settled with the server-type-not-found error: it neither
\* completes with success nor stays pending.
C12_NoServersFails ==
    (/\ IsStartedProxyCall
     /\ call.toSpecified
     /\ Head(call.args) = Star
     /\ LET servers == getServersByType(call.serverType)
        IN ~servers.present \/ Len(servers.list) = 0)
       => /\ call.sent = <<>>
          /\ call.promise \in {"resolved", "rejected"}
          /\ call.value = "ServerTypeNotFound"

\* C13: the promise of a proxy call is settled at most once, whatever the
\* mode of the call and however many invocations of a broadcast fail; and a
\* proxy call that made at least one dispatch is settled once the Transport
\* has answered every dispatch of it.
C13_SettledOnce ==
    /\ call.settles <= 1
    /\ call.promise \in {"resolved", "rejected"} => call.settles = 1
    /\ (/\ IsStartedProxyCall
        /\ Len(call.sent) >= 1
        /\ \A j \in 1..Len(call.sent) : call.sent[j].done)
          => call.promise \in {"resolved", "rejected"}

C13_Witness ==
    /\ IsBroadcast(call)
    /\ call.total = MaxServers
    /\ call.total >= 2
    /\ call.completed = 0
    /\ \A j \in 1..Len(call.sent) : call.sent[j].done
    /\ call.settles = 1

\* The registry holds exactly the latest registration of every service that
\* a descriptor registered.
HoldsRegistered(ps, lt) ==
    \A k \in RegistryKeys :
       lt[k] # 0 => /\ ps[k[1]].present
                    /\ ps[k[1]].types[k[2]].present
                    /\ ps[k[1]].types[k[2]].svc[k[3]] = lt[k]

C15_BadDescriptorNoOp ==
    [][/\ (lastOp'.op \in {"addProxy", "addProxies"} /\ latest' = latest)
             => proxies' = proxies
       /\ lastOp'.op = "addProxies" => HoldsRegistered(proxies', latest')]_vars

\* C16: a proxy call made after removeServer(id), strategy-routed or
\* wildcard, makes no dispatch addressed to id, unless the server was added
\* again.
C16_RemovedNeverDispatched ==
    (/\ lastOp.op = "proxyCall"
     /\ IsStartedProxyCall
     /\ ~call.toSpecified \/ Head(call.args) = Star)
       => \A j \in 1..Len(call.sent) : call.sent[j].serverId \in stationServers

\* C17: a Transport error event runs the registered failure handlers and
\* nothing else: the call in flight, the client state, the listeners and
\* the proxy registry are as before.
C17_ErrorEventChangesNothing ==
    [][lastOp'.op = "transportError"
          => /\ lastOp'.id = listeners
             /\ call' = call
             /\ state' = state
             /\ listeners' = listeners
             /\ proxies' = proxies]_vars

C17_Witness ==
    /\ lastOp.op = "transportError"
    /\ lastOp.id = 1
    /\ IsStartedProxyCall
    /\ call.promise = "pending"
    /\ Outstanding

\* C18: in strategy-routed mode a router error resolves the promise with
\* that error and no dispatch is made, then or later; a server id from the
\* router goes to one rpcInvoke, which on a STARTED client is exactly one
\* dispatch, to that id, of the message whose args are the caller's
\* arguments without the routing key (and on a client that is not STARTED
\* is the not-running failure of the call).
C18_RouterResult ==
    [][/\ lastOp'.op = "routeFailed"
           => /\ call'.promise = "resolved"
              /\ call'.value = "RouterError"
              /\ call'.sent = <<>>
              /\ call'.routing = "delivered"
       /\ (call.value = "RouterError" /\ lastOp'.op \notin {"proxyCall", "rpcInvoke"})
           => call'.sent = <<>>
       /\ lastOp'.op = "routeDelivered"
           => IF state = STATE_STARTED
              THEN /\ call'.promise = "pending"
                   /\ call'.sent = <<[serverId |-> lastOp'.target,
                                      msg |-> [namespace |-> "user",
                                               serverType |-> call.serverType,
                                               service |-> "svc", method |-> "m",
                                               args |-> Tail(call.args)],
                                      stateAt |-> STATE_STARTED, cb |-> "strategy",
                                      done |-> FALSE]>>
              ELSE /\ call'.sent = <<>>
                   /\ call'.promise = "rejected"
                   /\ call'.value = "NotRunning"]_vars

C18_Witness ==
    /\ lastOp.op = "routeFailed"
    /\ call.promise = "resolved"
    /\ call.value = "RouterError"
    /\ call.sent = <<>>
    /\ state = STATE_STARTED

\* C19: every dispatch made for a proxy call is addressed to a server of
\* the serverType of the message it carries.
C19_ServerTypeMatches ==
    call.api = "proxy"
       => \A j \in 1..Len(call.sent) :
             call.sent[j].serverId.s = call.sent[j].msg.serverType

\* C20: when stop() has closed the client between a strategy-routed call's
\* STARTED check and its router's answer, the answer leads to no dispatch
\* and the call fails with the not-running error; and the answer of the
\* Transport to a dispatch does not change the client state.
C20_StopRacesCall ==
    [][/\ (lastOp'.op = "routeDelivered" /\ stoppedInRoute)
           => /\ call'.sent = <<>>
              /\ call'.promise = "rejected"
              /\ call'.value = "NotRunning"
       /\ lastOp'.op \in {"completeOk", "completeFailed"} => state' = state]_vars
====
